---------------------------- MODULE Spec2Model ----------------------------
(***************************************************************************)
(* Two programs of the repository, each a run of its own:                  *)
(*   program = "gpu" : GPU_2nd_Session/1d_grid_1d_block.cu (main, the      *)
(*                     kernel addWithThreadsAndBlocks, random_ints,        *)
(*                     compare);                                           *)
(*   program = "cpu" : Vectorization/.../array_addition.cpp                *)
(*                     (initialization_Add, Add_default, Add_SSE, Add_AVX, *)
(*                     Compare_Add).                                       *)
(* Init chooses which program runs; the other program's variables keep     *)
(* their initial values for the whole behaviour.                           *)
(***************************************************************************)
EXTENDS Integers, Sequences, FiniteSets, TLC

VARIABLES
    program,                \* which of the two programs this behaviour is
    \* ---- 1d_grid_1d_block.cu -------------------------------------------
    VECTOR_LENGTH,          \* #define VECTOR_LENGTH (scaled down)
    MAX_NUMBER_OF_THREADS,  \* #define MAX_NUMBER_OF_THREADS (scaled down)
    pc,                     \* position of main
    host_a, host_b, host_c, \* contents of the host buffers
    device_a, device_b, device_c,   \* contents of the device buffers
    alloc,                  \* buffer name -> "none" | "allocated" | "released"
    acquired,               \* buffers in the order they were acquired
    released,               \* buffers in the order free/cudaFree was called
    todo,                   \* free/cudaFree calls still ahead in the branch taken
    failedStep,             \* the step whose status check failed, or "none"
    exit_status,            \* value returned by main (meaningful at pc = "exit")
    number_of_blocks,       \* main's local of that name
    kernel,                 \* "none" | "running" | "fault"
    wpc,                    \* worker <<blockIdx, threadIdx>> -> position
    reg,                    \* worker -> a[index] + b[index] held before the store
    kaccess,                \* <<buffer, index>> pairs touched by the kernel
    diagnostic,             \* TRUE once main printed the cudaGetLastError text
    compare_calls,          \* number of calls of compare
    compare_ret,            \* what the last call of compare returned
    compare_examined,       \* how many indices that call examined
    compare_printed,        \* the verdict lines compare has printed, in order
    misuse,                 \* frees of unheld buffers, uses of released ones
    \* ---- array_addition.cpp --------------------------------------------
    M,                      \* #define M of array_addition.h
    X1, X2, Y1, test2,      \* the global float arrays
    last,                   \* the routine called last
    ret,                    \* what it returned
    calls                   \* number of calls so far

gpuVars == <<VECTOR_LENGTH, MAX_NUMBER_OF_THREADS, pc, host_a, host_b, host_c,
             device_a, device_b, device_c, alloc, acquired, released, todo,
             failedStep, exit_status, number_of_blocks, kernel, wpc, reg,
             kaccess, diagnostic, compare_calls, compare_ret,
             compare_examined, compare_printed, misuse>>

cpuVars == <<M, X1, X2, Y1, test2, last, ret, calls>>

vars == <<program, gpuVars, cpuVars>>

-----------------------------------------------------------------------------
(* Bounds of the model *)

\* largest VECTOR_LENGTH explored
MaxLen == 3
\* largest MAX_NUMBER_OF_THREADS (threads per block) explored
MaxThreads == 2
\* largest M explored
MaxM == 9
\* number of routine calls explored in the CPU program
MaxCalls == 4

-----------------------------------------------------------------------------
(* Values *)

\* Content of memory that was allocated and never written: it has no
\* determined value until something reads it.
Indeterminate == 0 - 1

\* Outcomes of rand() explored: the smallest, range - 1, and range.
RandVals == {0, 99, 100}

\* What a read of never-written device memory may yield.
GarbageVals == {0, 2}

Buffers == {"host_a", "host_b", "host_c", "device_a", "device_b", "device_c"}

Indices == 0 .. (VECTOR_LENGTH - 1)

Fresh == [i \in Indices |-> Indeterminate]

Empty == [i \in {} |-> 0]

-----------------------------------------------------------------------------
(* 1d_grid_1d_block.cu : pure parts *)

\* int range = 100;
range == 100

\* Variant: the + 1 is missing.
random_ints_NoOffset(x, num_elements, rs) ==
    [i \in DOMAIN x |-> IF i < num_elements THEN rs[i] % range ELSE x[i]]

\* random_ints(x, num_elements), with rs[i] the value rand() returns in
\* iteration i: slots 0 .. num_elements-1 get rand() % range + 1.
random_ints(x, num_elements, rs) ==
    [i \in DOMAIN x |-> IF i < num_elements THEN (rs[i] % range) + 1 ELSE x[i]]

\* Variant: the division without the rounding-up term.
NumberOfBlocks_Floor(len, threads) == len \div threads

\* (VECTOR_LENGTH + MAX_NUMBER_OF_THREADS - 1) / MAX_NUMBER_OF_THREADS
NumberOfBlocks(len, threads) == (len + threads - 1) \div threads

\* Variant: the block offset without the block size.
Index_NoBlockDim(blockIdx, threadIdx, blockDim) == threadIdx + blockIdx

\* int index = threadIdx.x + blockIdx.x * blockDim.x;
Index(blockIdx, threadIdx, blockDim) == threadIdx + blockIdx * blockDim

\* Variant: the guard admits index = VECTOR_LENGTH.
InRange_Inclusive(index) == index <= VECTOR_LENGTH

\* if (index < VECTOR_LENGTH)
InRange(index) == index < VECTOR_LENGTH

\* dimGrid(number_of_blocks, 1, 1) x dimBlock(MAX_NUMBER_OF_THREADS, 1, 1)
Workers == (0 .. (number_of_blocks - 1)) \X (0 .. (MAX_NUMBER_OF_THREADS - 1))

IndexOf(w) == Index(w[1], w[2], MAX_NUMBER_OF_THREADS)

\* A load of slot i of a buffer of VECTOR_LENGTH slots; a load outside the
\* buffer yields no determined value.
Load(buf, i) == IF i \in DOMAIN buf THEN buf[i] ELSE Indeterminate

\* A store to slot i; a store outside the buffer does not land in it.
Store(buf, i, v) == IF i \in DOMAIN buf THEN [buf EXCEPT ![i] = v] ELSE buf

\* The loop of compare from index i on: the value returned, the number of
\* indices examined and the line printed.
RECURSIVE CompareFrom(_, _, _, _)
CompareFrom(a, b, c, i) ==
    IF i < VECTOR_LENGTH
    THEN IF (a[i] + b[i]) # c[i]
         THEN [ret |-> 0 - 1, examined |-> i + 1, printed |-> "wrong results"]
         ELSE CompareFrom(a, b, c, i + 1)
    ELSE [ret |-> 0, examined |-> i, printed |-> "Results are correct"]

\* Variant: the loop starts at index 1.
compare_FromOne(a, b, c) == CompareFrom(a, b, c, 1)

compare(a, b, c) == CompareFrom(a, b, c, 0)

\* Variant: the branches free the host buffers and forget the cudaFree calls.
CleanupList_HostOnly(step) ==
    CASE step = "malloc_a" -> << >>
      [] step = "malloc_b" -> <<"host_a">>
      [] step = "malloc_c" -> <<"host_a", "host_b">>
      [] OTHER             -> <<"host_a", "host_b", "host_c">>

\* Variant: the branches free what they hold newest first.
CleanupList_Reversed(step) ==
    CASE step = "malloc_a"     -> << >>
      [] step = "malloc_b"     -> <<"host_a">>
      [] step = "malloc_c"     -> <<"host_b", "host_a">>
      [] step = "cudaMalloc_a" -> <<"host_c", "host_b", "host_a">>
      [] step = "cudaMalloc_b" -> <<"device_a", "host_c", "host_b", "host_a">>
      [] step = "cudaMalloc_c" -> <<"device_b", "device_a", "host_c", "host_b",
                                    "host_a">>
      [] OTHER                 -> <<"device_c", "device_b", "device_a", "host_c",
                                    "host_b", "host_a">>

\* Variant: the branch of the third cudaMalloc names device_a twice.
CleanupList_Repeated(step) ==
    CASE step = "malloc_a"     -> << >>
      [] step = "malloc_b"     -> <<"host_a">>
      [] step = "malloc_c"     -> <<"host_a", "host_b">>
      [] step = "cudaMalloc_a" -> <<"host_a", "host_b", "host_c">>
      [] step = "cudaMalloc_b" -> <<"host_a", "host_b", "host_c", "device_a">>
      [] step = "cudaMalloc_c" -> <<"host_a", "host_b", "host_c", "device_a",
                                    "device_a">>
      [] OTHER                 -> <<"host_a", "host_b", "host_c", "device_a",
                                    "device_b", "device_c">>

\* The free/cudaFree calls of the branch main takes when `step` fails, in the
\* order the source writes them; "none" is the list of lines 181-191.
CleanupList(step) ==
    CASE step = "malloc_a"     -> << >>
      [] step = "malloc_b"     -> <<"host_a">>
      [] step = "malloc_c"     -> <<"host_a", "host_b">>
      [] step = "cudaMalloc_a" -> <<"host_a", "host_b", "host_c">>
      [] step = "cudaMalloc_b" -> <<"host_a", "host_b", "host_c", "device_a">>
      [] step = "cudaMalloc_c" -> <<"host_a", "host_b", "host_c", "device_a",
                                    "device_b">>
      [] OTHER                 -> <<"host_a", "host_b", "host_c", "device_a",
                                    "device_b", "device_c">>

\* Variant: every branch returns 0.
ReturnValue_AlwaysZero(step) == 0

\* Variant: the success path returns what compare returned.
ReturnValue_Verdict(step) == IF step = "none" THEN compare_ret ELSE 0 - 1

\* The value main returns at the end of the branch taken.
ReturnValue(step) == IF step = "none" THEN 0 ELSE 0 - 1

KernelFinished ==
    \/ kernel # "running"
    \/ \A w \in DOMAIN wpc : wpc[w] \in {"stored", "skipped"}

\* Buffers of bs that are not held at the moment they are used.
NotHeld(bs) == {<<"use", b>> : b \in {x \in bs : alloc[x] # "allocated"}}

-----------------------------------------------------------------------------
(* 1d_grid_1d_block.cu : main *)

gpuConst == <<program, cpuVars, VECTOR_LENGTH, MAX_NUMBER_OF_THREADS>>
hostBufs == <<host_a, host_b, host_c>>
devBufs == <<device_a, device_b, device_c>>
kernVars == <<number_of_blocks, kernel, wpc, reg, kaccess, diagnostic>>
cmpVars == <<compare_calls, compare_ret, compare_examined, compare_printed>>

\* A status check failed at `step`: main enters that branch.
Fail(step) ==
    /\ failedStep' = step
    /\ todo' = CleanupList(step)
    /\ pc' = "cleanup"

Acquire(b) ==
    /\ alloc' = [alloc EXCEPT ![b] = "allocated"]
    /\ acquired' = Append(acquired, b)

\* host_x = malloc(...); if (host_x == NULL) { ...; return -1; }
HostMalloc(step, b, next) ==
    /\ program = "gpu"
    /\ pc = step
    /\ \/ /\ Acquire(b)
          /\ pc' = next
          /\ UNCHANGED <<failedStep, todo>>
       \/ /\ Fail(step)
          /\ UNCHANGED <<alloc, acquired>>
    /\ UNCHANGED <<gpuConst, hostBufs, devBufs, released, exit_status,
                   kernVars, cmpVars, misuse>>

Malloc_a == HostMalloc("malloc_a", "host_a", "random_a")
Malloc_b == HostMalloc("malloc_b", "host_b", "random_b")
Malloc_c == HostMalloc("malloc_c", "host_c", "cudaMalloc_a")

\* random_ints(host_a, VECTOR_LENGTH);
Random_a ==
    /\ program = "gpu"
    /\ pc = "random_a"
    /\ \E rs \in [Indices -> RandVals] :
          host_a' = random_ints(host_a, VECTOR_LENGTH, rs)
    /\ misuse' = misuse \cup NotHeld({"host_a"})
    /\ pc' = "malloc_b"
    /\ UNCHANGED <<gpuConst, host_b, host_c, devBufs, alloc, acquired,
                   released, todo, failedStep, exit_status, kernVars, cmpVars>>

\* random_ints(host_b, VECTOR_LENGTH);
Random_b ==
    /\ program = "gpu"
    /\ pc = "random_b"
    /\ \E rs \in [Indices -> RandVals] :
          host_b' = random_ints(host_b, VECTOR_LENGTH, rs)
    /\ misuse' = misuse \cup NotHeld({"host_b"})
    /\ pc' = "malloc_c"
    /\ UNCHANGED <<gpuConst, host_a, host_c, devBufs, alloc, acquired,
                   released, todo, failedStep, exit_status, kernVars, cmpVars>>

\* cudaStatus = cudaMalloc(&device_x, ...); if (cudaStatus != cudaSuccess) ...
CudaMalloc(step, b, next) ==
    /\ program = "gpu"
    /\ pc = step
    /\ \/ /\ Acquire(b)
          /\ pc' = next
          /\ UNCHANGED <<failedStep, todo>>
       \/ /\ Fail(step)
          /\ UNCHANGED <<alloc, acquired>>
    /\ UNCHANGED <<gpuConst, hostBufs, devBufs, released, exit_status,
                   kernVars, cmpVars, misuse>>

CudaMalloc_a == CudaMalloc("cudaMalloc_a", "device_a", "cudaMalloc_b")
CudaMalloc_b == CudaMalloc("cudaMalloc_b", "device_b", "cudaMalloc_c")
CudaMalloc_c == CudaMalloc("cudaMalloc_c", "device_c", "memcpy_a")

\* cudaMemcpy(device_a, host_a, ..., cudaMemcpyHostToDevice)
Memcpy_a ==
    /\ program = "gpu"
    /\ pc = "memcpy_a"
    /\ misuse' = misuse \cup NotHeld({"device_a", "host_a"})
    /\ \/ /\ device_a' = host_a
          /\ pc' = "memcpy_b"
          /\ UNCHANGED <<failedStep, todo>>
       \/ /\ Fail("memcpy_a")
          /\ UNCHANGED device_a
    /\ UNCHANGED <<gpuConst, hostBufs, device_b, device_c, alloc, acquired,
                   released, exit_status, kernVars, cmpVars>>

\* cudaMemcpy(device_b, host_b, ..., cudaMemcpyHostToDevice)
Memcpy_b ==
    /\ program = "gpu"
    /\ pc = "memcpy_b"
    /\ misuse' = misuse \cup NotHeld({"device_b", "host_b"})
    /\ \/ /\ device_b' = host_b
          /\ pc' = "config"
          /\ UNCHANGED <<failedStep, todo>>
       \/ /\ Fail("memcpy_b")
          /\ UNCHANGED device_b
    /\ UNCHANGED <<gpuConst, hostBufs, device_a, device_c, alloc, acquired,
                   released, exit_status, kernVars, cmpVars>>

\* int number_of_blocks = ...; dim3 dimGrid(...); dim3 dimBlock(...);
Config ==
    /\ program = "gpu"
    /\ pc = "config"
    /\ number_of_blocks' = NumberOfBlocks(VECTOR_LENGTH, MAX_NUMBER_OF_THREADS)
    /\ pc' = "launch"
    /\ UNCHANGED <<gpuConst, hostBufs, devBufs, alloc, acquired, released,
                   todo, failedStep, exit_status, kernel, wpc, reg, kaccess,
                   diagnostic, cmpVars, misuse>>

\* addWithThreadsAndBlocks<<<dimGrid, dimBlock>>>(device_a, device_b, device_c);
\* the launch returns at once; either the grid starts running, or the launch
\* is rejected and no worker runs.
Launch ==
    /\ program = "gpu"
    /\ pc = "launch"
    /\ misuse' = misuse \cup NotHeld({"device_a", "device_b", "device_c"})
    /\ \/ /\ kernel' = "running"
          /\ wpc' = [w \in Workers |-> "ready"]
          /\ reg' = [w \in Workers |-> 0]
       \/ /\ kernel' = "fault"
          /\ UNCHANGED <<wpc, reg>>
    /\ pc' = "getLastError"
    /\ UNCHANGED <<gpuConst, hostBufs, devBufs, alloc, acquired, released,
                   todo, failedStep, exit_status, number_of_blocks, kaccess,
                   diagnostic, cmpVars>>

\* Variant: a reported launch error is treated like a failed copy.
GetLastError_Aborts ==
    /\ program = "gpu"
    /\ pc = "getLastError"
    /\ diagnostic' = (kernel = "fault")
    /\ IF kernel = "fault"
       THEN Fail("launch")
       ELSE pc' = "memcpy_c" /\ UNCHANGED <<failedStep, todo>>
    /\ UNCHANGED <<gpuConst, hostBufs, devBufs, alloc, acquired, released,
                   exit_status, number_of_blocks, kernel,
                   wpc, reg, kaccess, cmpVars, misuse>>

\* cudaError_t error = cudaGetLastError(); if (error != cudaSuccess) printf(...)
GetLastError ==
    /\ program = "gpu"
    /\ pc = "getLastError"
    /\ diagnostic' = (kernel = "fault")
    /\ pc' = "memcpy_c"
    /\ UNCHANGED <<gpuConst, hostBufs, devBufs, alloc, acquired, released,
                   todo, failedStep, exit_status, number_of_blocks, kernel,
                   wpc, reg, kaccess, cmpVars, misuse>>

\* Variant: the copy does not wait for the kernel.
Memcpy_c_NoWait ==
    /\ program = "gpu"
    /\ pc = "memcpy_c"
    /\ misuse' = misuse \cup NotHeld({"host_c", "device_c"})
    /\ \/ /\ \E g \in [Indices -> GarbageVals] :
                host_c' = [i \in Indices |->
                             IF device_c[i] = Indeterminate THEN g[i]
                                                            ELSE device_c[i]]
          /\ pc' = "compare"
          /\ UNCHANGED <<failedStep, todo>>
       \/ /\ Fail("memcpy_c")
          /\ UNCHANGED host_c
    /\ UNCHANGED <<gpuConst, host_a, host_b, devBufs, alloc, acquired,
                   released, exit_status, kernVars, cmpVars>>

\* cudaMemcpy(host_c, device_c, ..., cudaMemcpyDeviceToHost): the copy is
\* ordered after the kernel, so it delivers only once every worker has
\* finished; a slot no worker wrote is read as whatever the memory holds.
Memcpy_c ==
    /\ program = "gpu"
    /\ pc = "memcpy_c"
    /\ misuse' = misuse \cup NotHeld({"host_c", "device_c"})
    /\ \/ /\ KernelFinished
          /\ \E g \in [Indices -> GarbageVals] :
                host_c' = [i \in Indices |->
                             IF device_c[i] = Indeterminate THEN g[i]
                                                            ELSE device_c[i]]
          /\ pc' = "compare"
          /\ UNCHANGED <<failedStep, todo>>
       \/ /\ Fail("memcpy_c")
          /\ UNCHANGED host_c
    /\ UNCHANGED <<gpuConst, host_a, host_b, devBufs, alloc, acquired,
                   released, exit_status, kernVars, cmpVars>>

\* compare(host_a, host_b, host_c); the value returned is dropped, and the
\* frees of lines 181-191 follow.
Compare ==
    /\ program = "gpu"
    /\ pc = "compare"
    /\ misuse' = misuse \cup NotHeld({"host_a", "host_b", "host_c"})
    /\ compare_calls' = compare_calls + 1
    /\ compare_ret' = compare(host_a, host_b, host_c).ret
    /\ compare_examined' = compare(host_a, host_b, host_c).examined
    /\ compare_printed' = Append(compare_printed,
                                 compare(host_a, host_b, host_c).printed)
    /\ todo' = CleanupList("none")
    /\ pc' = "cleanup"
    /\ UNCHANGED <<gpuConst, hostBufs, devBufs, alloc, acquired, released,
                   failedStep, exit_status, kernVars>>

\* The next free(...) / cudaFree(...) of the branch. cudaFree waits for the
\* kernel in flight before it releases device memory.
Free ==
    /\ program = "gpu"
    /\ pc = "cleanup"
    /\ todo # << >>
    /\ Head(todo) \in {"device_a", "device_b", "device_c"} => KernelFinished
    /\ IF alloc[Head(todo)] = "allocated"
       THEN /\ alloc' = [alloc EXCEPT ![Head(todo)] = "released"]
            /\ UNCHANGED misuse
       ELSE /\ misuse' = misuse \cup {<<"free", Head(todo)>>}
            /\ UNCHANGED alloc
    /\ released' = Append(released, Head(todo))
    /\ todo' = Tail(todo)
    /\ UNCHANGED <<gpuConst, hostBufs, devBufs, acquired, pc, failedStep,
                   exit_status, kernVars, cmpVars>>

\* End of the branch: return -1 after a failure; cudaDeviceReset() and
\* return 0 otherwise.
Return ==
    /\ program = "gpu"
    /\ pc = "cleanup"
    /\ todo = << >>
    /\ exit_status' = ReturnValue(failedStep)
    /\ pc' = "exit"
    /\ UNCHANGED <<gpuConst, hostBufs, devBufs, alloc, acquired, released,
                   todo, failedStep, kernVars, cmpVars, misuse>>

-----------------------------------------------------------------------------
(* 1d_grid_1d_block.cu : one worker of addWithThreadsAndBlocks *)

\* index = ...; if (index < VECTOR_LENGTH) evaluate a[index] + b[index]
WorkerLoad(w) ==
    /\ program = "gpu"
    /\ kernel = "running"
    /\ w \in DOMAIN wpc
    /\ wpc[w] = "ready"
    /\ IF InRange(IndexOf(w))
       THEN /\ reg' = [reg EXCEPT ![w] = Load(device_a, IndexOf(w))
                                       + Load(device_b, IndexOf(w))]
            /\ kaccess' = kaccess \cup {<<"device_a", IndexOf(w)>>,
                                        <<"device_b", IndexOf(w)>>}
            /\ wpc' = [wpc EXCEPT ![w] = "loaded"]
       ELSE /\ wpc' = [wpc EXCEPT ![w] = "skipped"]
            /\ UNCHANGED <<reg, kaccess>>
    /\ misuse' = misuse \cup NotHeld({"device_a", "device_b", "device_c"})
    /\ UNCHANGED <<gpuConst, hostBufs, devBufs, alloc, acquired, released,
                   todo, failedStep, exit_status, pc, number_of_blocks,
                   kernel, diagnostic, cmpVars>>

\* c[index] = (the sum just evaluated)
WorkerStore(w) ==
    /\ program = "gpu"
    /\ kernel = "running"
    /\ w \in DOMAIN wpc
    /\ wpc[w] = "loaded"
    /\ device_c' = Store(device_c, IndexOf(w), reg[w])
    /\ kaccess' = kaccess \cup {<<"device_c", IndexOf(w)>>}
    /\ wpc' = [wpc EXCEPT ![w] = "stored"]
    /\ misuse' = misuse \cup NotHeld({"device_c"})
    /\ UNCHANGED <<gpuConst, hostBufs, device_a, device_b, alloc, acquired,
                   released, todo, failedStep, exit_status, pc,
                   number_of_blocks, kernel, reg, diagnostic, cmpVars>>

Worker == \E w \in DOMAIN wpc : WorkerLoad(w) \/ WorkerStore(w)

NextGPU ==
    \/ Malloc_a \/ Random_a \/ Malloc_b \/ Random_b \/ Malloc_c
    \/ CudaMalloc_a \/ CudaMalloc_b \/ CudaMalloc_c
    \/ Memcpy_a \/ Memcpy_b \/ Config \/ Launch \/ GetLastError
    \/ Memcpy_c \/ Compare \/ Free \/ Return
    \/ Worker

InitGPUVars ==
    /\ pc = "malloc_a"
    /\ host_a = Fresh /\ host_b = Fresh /\ host_c = Fresh
    /\ device_a = Fresh /\ device_b = Fresh /\ device_c = Fresh
    /\ alloc = [b \in Buffers |-> "none"]
    /\ acquired = << >>
    /\ released = << >>
    /\ todo = << >>
    /\ failedStep = "none"
    /\ exit_status = 0
    /\ number_of_blocks = 0
    /\ kernel = "none"
    /\ wpc = Empty
    /\ reg = Empty
    /\ kaccess = {}
    /\ diagnostic = FALSE
    /\ compare_calls = 0
    /\ compare_ret = 0
    /\ compare_examined = 0
    /\ compare_printed = << >>
    /\ misuse = {}

-----------------------------------------------------------------------------
(* array_addition.cpp *)

\* A float is held as a whole number of ten-thousandths; the values the
\* program forms (small integers plus r or e, and sums of two of them) are
\* far below the point where float rounding could merge two of them, and the
\* same operands always give the same sum.
IntToFloat(n) == n * 10000

\* float e = 0.1234, ..., r = 0.11;
e == 1234
r == 1100

Slots == 0 .. (M - 1)

Zeros == [j \in Slots |-> 0]

\* for (unsigned int j = 0; j != M; j++) { Y1[j] = 0.0; test2[j] = 0.0;
\*     X1[j] = (j % 7) + r; X2[j] = (j % 13) + e; }
InitX1(j) == IntToFloat(j % 7) + r
InitX2(j) == IntToFloat(j % 13) + e

initialization_Add ==
    /\ program = "cpu"
    /\ calls < MaxCalls
    /\ Y1' = [j \in Slots |-> 0]
    /\ test2' = [j \in Slots |-> 0]
    /\ X1' = [j \in Slots |-> InitX1(j)]
    /\ X2' = [j \in Slots |-> InitX2(j)]
    /\ last' = "initialization_Add"
    /\ calls' = calls + 1
    /\ UNCHANGED <<program, gpuVars, M, ret>>

\* Variant: the loop stops one element early.
RECURSIVE AddDefaultLoop_Short(_, _)
AddDefaultLoop_Short(j, y) ==
    IF j < M - 1
    THEN AddDefaultLoop_Short(j + 1, [y EXCEPT ![j] = X1[j] + X2[j]])
    ELSE y

\* for (int j = 0; j < M; j++) Y1[j] = X1[j] + X2[j];   from index j on,
\* with y the content of Y1 so far
RECURSIVE AddDefaultLoop(_, _)
AddDefaultLoop(j, y) ==
    IF j < M
    THEN AddDefaultLoop(j + 1, [y EXCEPT ![j] = X1[j] + X2[j]])
    ELSE y

Add_default ==
    /\ program = "cpu"
    /\ calls < MaxCalls
    /\ Y1' = AddDefaultLoop(0, Y1)
    /\ ret' = 0
    /\ last' = "Add_default"
    /\ calls' = calls + 1
    /\ UNCHANGED <<program, gpuVars, M, X1, X2, test2>>

\* __m128 num0, ...;  //write your code here   return 0;
Add_SSE ==
    /\ program = "cpu"
    /\ calls < MaxCalls
    /\ ret' = 0
    /\ last' = "Add_SSE"
    /\ calls' = calls + 1
    /\ UNCHANGED <<program, gpuVars, M, X1, X2, Y1, test2>>

\* __m256 ymm0, ...;  //write your code here   return 0;
Add_AVX ==
    /\ program = "cpu"
    /\ calls < MaxCalls
    /\ ret' = 0
    /\ last' = "Add_AVX"
    /\ calls' = calls + 1
    /\ UNCHANGED <<program, gpuVars, M, X1, X2, Y1, test2>>

\* equal(a, b) of array_addition.h: true (1) exactly when a and b are the
\* same float.
equal(a, b) == IF a = b THEN 1 ELSE 0

\* for (int j = 0; j < M; j++) test2[j] = X1[j] + X2[j];
RECURSIVE ReferenceLoop(_, _)
ReferenceLoop(j, t) ==
    IF j < M
    THEN ReferenceLoop(j + 1, [t EXCEPT ![j] = X1[j] + X2[j]])
    ELSE t

\* for (int j = 0; j < M; j++) if (equal(Y1[j], test2[j]) == 1) return 1;
\* return 0;      from index j on, against the reference t: the value
\* returned and the number of indices examined
RECURSIVE CompareAddLoop(_, _)
CompareAddLoop(j, t) ==
    IF j < M
    THEN IF equal(Y1[j], t[j]) = 1
         THEN [ret |-> 1, examined |-> j + 1]
         ELSE CompareAddLoop(j + 1, t)
    ELSE [ret |-> 0, examined |-> j]

\* Variant: the reference is written over Y1 instead of test2.
Compare_Add_ClobbersY1 ==
    /\ program = "cpu"
    /\ calls < MaxCalls
    /\ Y1' = ReferenceLoop(0, Y1)
    /\ ret' = CompareAddLoop(0, ReferenceLoop(0, test2)).ret
    /\ last' = "Compare_Add"
    /\ calls' = calls + 1
    /\ UNCHANGED <<program, gpuVars, M, X1, X2, test2>>

Compare_Add ==
    /\ program = "cpu"
    /\ calls < MaxCalls
    /\ test2' = ReferenceLoop(0, test2)
    /\ ret' = CompareAddLoop(0, ReferenceLoop(0, test2)).ret
    /\ last' = "Compare_Add"
    /\ calls' = calls + 1
    /\ UNCHANGED <<program, gpuVars, M, X1, X2, Y1>>

NextCPU ==
    \/ initialization_Add
    \/ Add_default
    \/ Add_SSE
    \/ Add_AVX
    \/ Compare_Add

\* The arrays are globals: zero before initialization_Add runs.
InitCPUVars ==
    /\ X1 = Zeros /\ X2 = Zeros /\ Y1 = Zeros /\ test2 = Zeros
    /\ last = "none"
    /\ ret = 0
    /\ calls = 0

-----------------------------------------------------------------------------
(* The specification *)

Init ==
    /\ program \in {"gpu", "cpu"}
    /\ IF program = "gpu"
       THEN /\ VECTOR_LENGTH \in 1 .. MaxLen
            /\ MAX_NUMBER_OF_THREADS \in 1 .. MaxThreads
            /\ M = 0
       ELSE /\ VECTOR_LENGTH = 0
            /\ MAX_NUMBER_OF_THREADS = 0
            /\ M \in 0 .. MaxM
    /\ InitGPUVars
    /\ InitCPUVars

Next == NextGPU \/ NextCPU

Spec == Init /\ [][Next]_vars

-----------------------------------------------------------------------------
(* Properties of the GPU program *)

Range(seq) == {seq[k] : k \in 1 .. Len(seq)}

RECURSIVE Reverse(_)
Reverse(seq) == IF seq = << >> THEN << >>
                ELSE Append(Reverse(Tail(seq)), Head(seq))

IsPrefix(p, q) == Len(p) <= Len(q) /\ p = SubSeq(q, 1, Len(p))

\* The workers whose store to slot i of device_c has happened.
StoredTo(i) == {w \in DOMAIN wpc : wpc[w] = "stored" /\ IndexOf(w) = i}

\* The steps whose failure is a device allocation or a host<->device copy.
DeviceSteps == {"cudaMalloc_a", "cudaMalloc_b", "cudaMalloc_c",
                "memcpy_a", "memcpy_b", "memcpy_c"}

\* The steps that come before the kernel launch.
PreLaunchSteps == {"malloc_a", "malloc_b", "malloc_c", "cudaMalloc_a",
                   "cudaMalloc_b", "cudaMalloc_c", "memcpy_a", "memcpy_b"}

\* main has computed number_of_blocks.
Configured == program = "gpu" /\ (pc = "launch" \/ kernel # "none")

\* C1: when every allocation and copy succeeded and the kernel ran, then for
\* every order in which the workers ran, host_c[i] = host_a[i] + host_b[i] for
\* every i when compare is called, compare returns 0, and no slot of device_c
\* is ever stored to by two workers (once the kernel is finished, by exactly
\* one).
C1_KernelSumCorrect ==
    (program = "gpu" /\ kernel = "running") =>
        /\ \A i \in Indices : Cardinality(StoredTo(i)) <= 1
        /\ KernelFinished => \A i \in Indices : Cardinality(StoredTo(i)) = 1
        /\ (failedStep = "none" /\ (pc = "compare" \/ compare_calls > 0)) =>
              \A i \in Indices : host_c[i] = host_a[i] + host_b[i]
        /\ compare_calls > 0 => compare_ret = 0

\* A finished run with two blocks, more workers than elements, and compare
\* having returned 0.
C1_Witness ==
    /\ program = "gpu"
    /\ pc = "exit"
    /\ kernel = "running"
    /\ compare_calls = 1
    /\ compare_ret = 0
    /\ number_of_blocks > 1
    /\ Cardinality(DOMAIN wpc) > VECTOR_LENGTH

\* C2: a worker <<blockIdx, threadIdx>> evaluates and stores
\* c[idx] = a[idx] + b[idx], idx = threadIdx + blockIdx * blockDim, exactly
\* when idx < VECTOR_LENGTH; otherwise it touches nothing; the kernel never
\* touches a slot outside 0 .. VECTOR_LENGTH-1 of a, b or c.
C2_BoundsGuard ==
    program = "gpu" =>
        /\ \A acc \in kaccess : acc[2] \in Indices
        /\ \A w \in DOMAIN wpc :
              LET idx == w[2] + w[1] * MAX_NUMBER_OF_THREADS IN
              /\ wpc[w] \in {"loaded", "stored"} =>
                    /\ idx < VECTOR_LENGTH
                    /\ <<"device_a", idx>> \in kaccess
                    /\ <<"device_b", idx>> \in kaccess
              /\ wpc[w] = "stored" =>
                    /\ idx < VECTOR_LENGTH
                    /\ <<"device_c", idx>> \in kaccess
                    /\ device_c[idx] = device_a[idx] + device_b[idx]
              /\ wpc[w] = "skipped" =>
                    /\ idx >= VECTOR_LENGTH
                    /\ \A acc \in kaccess : acc[2] # idx
              /\ wpc[w] = "ready" => <<"device_c", idx>> \notin kaccess

\* The kernel has finished with a worker that stored and one that skipped.
C2_Witness ==
    /\ program = "gpu"
    /\ kernel = "running"
    /\ KernelFinished
    /\ \E w \in DOMAIN wpc : wpc[w] = "skipped"
    /\ \E w \in DOMAIN wpc : wpc[w] = "stored"
    /\ Cardinality(kaccess) = 3 * VECTOR_LENGTH

\* C3: when main returns, after a failure at any step or after success,
\* every buffer it had acquired has been released and none is still held.
C3_AllReleasedAtExit ==
    (program = "gpu" /\ pc = "exit") =>
        /\ \A b \in Buffers : alloc[b] # "allocated"
        /\ \A b \in Range(acquired) : alloc[b] = "released"
        /\ Range(released) = Range(acquired)

\* main returned after the third cudaMalloc failed, five buffers acquired.
C3_Witness ==
    /\ program = "gpu"
    /\ pc = "exit"
    /\ failedStep = "cudaMalloc_c"
    /\ Len(acquired) = 5
    /\ \A b \in Range(acquired) : alloc[b] = "released"

\* C4 as stated: after a failed device allocation or copy the buffers held
\* are released newest first, host_a last, before main returns.
C4_ReverseOrder ==
    (program = "gpu" /\ pc = "exit" /\ failedStep \in DeviceSteps) =>
        released = Reverse(acquired)

\* C4 as amended: after a failed device allocation or copy the buffers held
\* are released in the order they were acquired, host_a first and the newest
\* last, and main returns -1 only once all of them are released.
C4_AcquisitionOrder ==
    (program = "gpu" /\ failedStep \in DeviceSteps) =>
        /\ IsPrefix(released, acquired)
        /\ pc = "exit" => (released = acquired /\ exit_status = 0 - 1)

\* main returned after the second cudaMalloc failed: host_a, host_b, host_c,
\* device_a were released in that order.
C4_Witness ==
    /\ program = "gpu"
    /\ pc = "exit"
    /\ failedStep = "cudaMalloc_b"
    /\ released = <<"host_a", "host_b", "host_c", "device_a">>

\* C5: after a failed allocation or copy main does nothing but release and
\* return a negative status: compare is never called, and the kernel is never
\* launched when the failure precedes the launch; without such a failure main
\* returns 0.
C5_FailureReturnsNegative ==
    program = "gpu" =>
        /\ failedStep # "none" =>
              /\ pc \in {"cleanup", "exit"}
              /\ compare_calls = 0
              /\ failedStep \in PreLaunchSteps => (kernel = "none" /\ wpc = Empty)
              /\ pc = "exit" => exit_status < 0
        /\ (failedStep = "none" /\ pc = "exit") =>
              (exit_status = 0 /\ compare_calls = 1)

\* main returned -1 after the cudaMalloc of the second device buffer failed.
C5_Witness ==
    /\ program = "gpu"
    /\ pc = "exit"
    /\ failedStep = "cudaMalloc_b"
    /\ exit_status = 0 - 1
    /\ kernel = "none"
    /\ alloc["device_a"] = "released"

\* C6: number_of_blocks = (L + T - 1) / T is the ceiling of L / T:
\* blocks * T >= L and (blocks - 1) * T < L; every index below L is the global
\* index of exactly one worker of the grid, and the last block has a worker
\* in range.
C6_CeilingPartition ==
    Configured =>
        /\ number_of_blocks * MAX_NUMBER_OF_THREADS >= VECTOR_LENGTH
        /\ (number_of_blocks - 1) * MAX_NUMBER_OF_THREADS < VECTOR_LENGTH
        /\ \A n \in 0 .. VECTOR_LENGTH :
              n * MAX_NUMBER_OF_THREADS >= VECTOR_LENGTH => number_of_blocks <= n
        /\ \A i \in Indices :
              Cardinality({w \in Workers : IndexOf(w) = i}) = 1
        /\ \E t \in 0 .. (MAX_NUMBER_OF_THREADS - 1) :
              Index(number_of_blocks - 1, t, MAX_NUMBER_OF_THREADS) < VECTOR_LENGTH

\* A length that is no multiple of the block size: two blocks, the second
\* partly out of range.
C6_Witness ==
    /\ Configured
    /\ VECTOR_LENGTH % MAX_NUMBER_OF_THREADS # 0
    /\ number_of_blocks = 2
    /\ number_of_blocks * MAX_NUMBER_OF_THREADS > VECTOR_LENGTH

-----------------------------------------------------------------------------
(* Properties of the CPU program *)

\* X1 and X2 hold what initialization_Add wrote.
Initialised ==
    /\ program = "cpu"
    /\ X1 = [j \in Slots |-> InitX1(j)]
    /\ X2 = [j \in Slots |-> InitX2(j)]

\* The step just taken was a call of routine f.
Called(f) == program = "cpu" /\ last' = f /\ calls' = calls + 1

\* C7 as stated: after initialization_Add, a call of Add_SSE or of Add_AVX
\* leaves Y1[j] = X1[j] + X2[j] for every j below M, which is what Add_default
\* leaves there.
C7_SimdMatchesScalar ==
    (Initialised /\ last \in {"Add_SSE", "Add_AVX"}) =>
        \A j \in Slots : Y1[j] = X1[j] + X2[j]

\* C8: for every M, M = 0 included, a call of Add_default ends with
\* Y1[j] = X1[j] + X2[j] for every j below M and returns 0, leaves X1, X2 and
\* test2 as they were, and a second call right after the first leaves Y1 as
\* the first one left it.
C8_AddDefault ==
    [][Called("Add_default") =>
          /\ DOMAIN Y1' = Slots
          /\ \A j \in Slots : Y1'[j] = X1[j] + X2[j]
          /\ X1' = X1 /\ X2' = X2 /\ test2' = test2
          /\ ret' = 0
          /\ last = "Add_default" => Y1' = Y1]_vars

\* Add_default has run twice in a row on initialised arrays of several
\* elements and Y1 holds the sums.
C8_Witness ==
    /\ Initialised
    /\ M > 1
    /\ last = "Add_default"
    /\ calls = 3
    /\ Y1[M - 1] = InitX1(M - 1) + InitX2(M - 1)
    /\ Y1[0] # 0
    /\ test2 = Zeros

\* C9 as stated: Compare_Add returns a non-zero status exactly when some j
\* below M has Y1[j] # X1[j] + X2[j], and 0 when Y1 agrees with the reference
\* everywhere.
C9_FailureIffMismatch ==
    (program = "cpu" /\ last = "Compare_Add") =>
        ((ret # 0) <=> (\E j \in Slots : Y1[j] # X1[j] + X2[j]))

\* C10 as stated: Compare_Add leaves X1, X2, Y1 and test2 as they were, and
\* the GPU compare leaves host_a, host_b and host_c as they were.
C10_ComparatorsChangeNothing ==
    [][/\ Called("Compare_Add") =>
             (X1' = X1 /\ X2' = X2 /\ Y1' = Y1 /\ test2' = test2)
       /\ (program = "gpu" /\ compare_calls' # compare_calls) =>
             (host_a' = host_a /\ host_b' = host_b /\ host_c' = host_c)]_vars

\* C10 as amended: Compare_Add leaves X1, X2 and Y1 as they were and
\* overwrites every slot j of test2 with the reference X1[j] + X2[j]; the GPU
\* compare leaves host_a, host_b and host_c as they were.
C10_ComparatorsFrame ==
    [][/\ Called("Compare_Add") =>
             /\ X1' = X1 /\ X2' = X2 /\ Y1' = Y1
             /\ test2' = [j \in Slots |-> X1[j] + X2[j]]
       /\ (program = "gpu" /\ compare_calls' # compare_calls) =>
             (host_a' = host_a /\ host_b' = host_b /\ host_c' = host_c)]_vars

\* Compare_Add has run on initialised arrays whose Y1 is still zero: test2
\* now holds the sums, Y1 does not.
C10_Witness ==
    /\ Initialised
    /\ M > 0
    /\ last = "Compare_Add"
    /\ test2 = [j \in Slots |-> X1[j] + X2[j]]
    /\ test2 # Zeros
    /\ Y1 = Zeros

-----------------------------------------------------------------------------
(* Properties of the GPU program, continued *)

\* The indices at which host_c differs from host_a + host_b.
Mismatches == {i \in Indices : host_a[i] + host_b[i] # host_c[i]}

\* The smallest element of a non-empty set of indices.
Least(S) == CHOOSE i \in S : \A k \in S : i <= k

\* C11: compare returns 0 exactly when a[i] + b[i] = c[i] for every i below
\* VECTOR_LENGTH, having examined every index; otherwise it returns -1 at the
\* smallest mismatching index, having examined no later index; each call
\* prints exactly one of the two verdict lines, the one that goes with the
\* value returned.
C11_CompareVerdict ==
    (program = "gpu" /\ compare_calls > 0) =>
        /\ compare_ret \in {0, 0 - 1}
        /\ (compare_ret = 0) <=> (Mismatches = {})
        /\ compare_ret = 0 => compare_examined = VECTOR_LENGTH
        /\ compare_ret # 0 => compare_examined = Least(Mismatches) + 1
        /\ Len(compare_printed) = compare_calls
        /\ compare_printed[compare_calls] =
              IF compare_ret = 0 THEN "Results are correct" ELSE "wrong results"

\* compare returned -1 on arrays whose first slots agree and whose later
\* slots do not all agree: it stopped at the first mismatch, short of the end.
C11_Witness ==
    /\ program = "gpu"
    /\ compare_calls = 1
    /\ compare_ret = 0 - 1
    /\ 0 \notin Mismatches
    /\ 1 < compare_examined
    /\ compare_examined < VECTOR_LENGTH
    /\ compare_printed = <<"wrong results">>

\* The largest value of a 32-bit signed int.
INT_MAX == 2147483647

\* random_ints has filled the buffer b.
Filled(b) ==
    /\ b \in Range(acquired)
    /\ pc # (IF b = "host_a" THEN "random_a" ELSE "random_b")

\* C12: random_ints(x, VECTOR_LENGTH) writes the slots 0 .. VECTOR_LENGTH-1 of
\* x and nothing else, every value written is in 1 .. 100 (min = 1,
\* min + range - 1 = 100), and so every sum a[i] + b[i] formed by a worker or
\* by compare is in 2 .. 200, below the largest 32-bit signed int.
C12_RandomIntsRange ==
    program = "gpu" =>
        /\ Filled("host_a") =>
              /\ DOMAIN host_a = 0 .. (VECTOR_LENGTH - 1)
              /\ \A i \in Indices : host_a[i] \in 1 .. (1 + range - 1)
        /\ Filled("host_b") =>
              /\ DOMAIN host_b = 0 .. (VECTOR_LENGTH - 1)
              /\ \A i \in Indices : host_b[i] \in 1 .. (1 + range - 1)
        /\ ~Filled("host_b") => host_b = Fresh
        /\ pc \in {"malloc_b", "random_b", "malloc_c"} => host_c = Fresh
        /\ \A w \in DOMAIN wpc :
              wpc[w] \in {"loaded", "stored"} =>
                  (reg[w] \in 2 .. 200 /\ reg[w] <= INT_MAX)
        /\ (Filled("host_a") /\ Filled("host_b")) =>
              \A i \in Indices :
                  /\ host_a[i] + host_b[i] \in 2 .. 200
                  /\ host_a[i] + host_b[i] <= INT_MAX

\* A finished run in which one slot holds the smallest sum and another the
\* largest.
C12_Witness ==
    /\ program = "gpu"
    /\ pc = "exit"
    /\ compare_calls = 1
    /\ compare_ret = 0
    /\ \E i \in Indices : host_a[i] = 1 /\ host_b[i] = 1 /\ host_c[i] = 2
    /\ \E i \in Indices : host_a[i] = 100 /\ host_b[i] = 100 /\ host_c[i] = 200

\* C13: when the launch is rejected, main prints the error and goes on: it
\* attempts the device-to-host copy, and if that copy succeeds it calls
\* compare, releases all six buffers and returns 0; nothing stays allocated
\* at exit, and the buffers filled before the launch keep their contents.
C13_LaunchFaultNotFatal ==
    program = "gpu" =>
        /\ diagnostic => kernel = "fault"
        /\ kernel = "fault" =>
              /\ pc # "getLastError" => diagnostic
              /\ failedStep \in {"none", "memcpy_c"}
              /\ pc \in {"getLastError", "memcpy_c", "compare", "cleanup", "exit"}
              /\ pc \in {"cleanup", "exit"} =>
                    (compare_calls = 1 \/ failedStep = "memcpy_c")
              /\ (pc = "exit" /\ failedStep = "none") =>
                    /\ compare_calls = 1
                    /\ exit_status = 0
                    /\ Range(released) = Buffers
              /\ pc = "exit" => \A b \in Buffers : alloc[b] = "released"
              /\ device_a = host_a /\ device_b = host_b
              /\ \A i \in Indices : host_a[i] \in 1 .. range /\ host_b[i] \in 1 .. range
              /\ misuse = {}

\* main returned 0 after a rejected launch: the error was printed, the copy
\* succeeded, compare ran, all six buffers are released.
C13_Witness ==
    /\ program = "gpu"
    /\ kernel = "fault"
    /\ diagnostic
    /\ pc = "exit"
    /\ exit_status = 0
    /\ compare_calls = 1
    /\ Len(released) = 6

DeviceBuffers == {"device_a", "device_b", "device_c"}

\* C14: the three device allocations come before the host-to-device copies,
\* both copies before the launch, the launch before the device-to-host copy,
\* and that copy before compare: the kernel is never launched unless
\* device_a and device_b hold copies of host_a and host_b, and compare is
\* never called unless the copy of device_c into host_c has succeeded, which
\* is never while a worker is still to write device_c.
C14_StageOrder ==
    program = "gpu" =>
        /\ (device_a # Fresh \/ device_b # Fresh) =>
              DeviceBuffers \subseteq Range(acquired)
        /\ device_b # Fresh => device_a = host_a
        /\ (kernel # "none" \/ DOMAIN wpc # {}) =>
              /\ device_a = host_a
              /\ device_b = host_b
              /\ failedStep \in {"none", "memcpy_c"}
        /\ device_c # Fresh => kernel = "running"
        /\ host_c # Fresh => (kernel # "none" /\ KernelFinished)
        /\ (pc = "compare" \/ compare_calls > 0) =>
              /\ failedStep = "none"
              /\ kernel # "none"
              /\ KernelFinished
              /\ \A i \in Indices : host_c[i] # Indeterminate
              /\ kernel = "running" => host_c = device_c

\* main is about to call compare after a kernel of two blocks has finished
\* and its result has been copied back.
C14_Witness ==
    /\ program = "gpu"
    /\ pc = "compare"
    /\ kernel = "running"
    /\ number_of_blocks > 1
    /\ KernelFinished
    /\ host_c = device_c
    /\ device_a = host_a
    /\ device_b = host_b

\* C15: on every path of main no buffer is released twice, none is released
\* that was not acquired, and none is written, copied, handed to the kernel,
\* touched by a worker or handed to compare unless it is held at that moment.
C15_NoDoubleFreeNoUseAfterFree ==
    program = "gpu" =>
        /\ misuse = {}
        /\ \A j, k \in 1 .. Len(released) : released[j] = released[k] => j = k
        /\ Range(released) \subseteq Range(acquired)
        /\ \A b \in Buffers :
              alloc[b] = "released" <=> b \in Range(released)
        /\ (kernel = "running" /\ ~KernelFinished) =>
              \A b \in DeviceBuffers : alloc[b] = "allocated"
        /\ pc \in {"memcpy_a", "memcpy_b", "config", "launch", "getLastError",
                   "memcpy_c", "compare"} =>
              \A b \in Buffers : alloc[b] = "allocated"

\* main returned after the copy-back failed while the kernel had been
\* launched: the six buffers were released once each, the device ones after
\* the last worker.
C15_Witness ==
    /\ program = "gpu"
    /\ pc = "exit"
    /\ failedStep = "memcpy_c"
    /\ kernel = "running"
    /\ KernelFinished
    /\ Len(released) = 6
    /\ Range(released) = Buffers
    /\ misuse = {}

\* C16: what main returns depends only on whether an allocation or a copy
\* failed: 0 when none did, whatever compare returned, and -1 otherwise; so a
\* return of 0 does not tell that host_c = host_a + host_b.
C16_StatusIgnoresVerdict ==
    (program = "gpu" /\ pc = "exit") =>
        /\ (failedStep = "none") <=> (exit_status = 0)
        /\ (failedStep # "none") <=> (exit_status = 0 - 1)
        /\ (failedStep = "none" /\ compare_ret # 0) => exit_status = 0

\* main returned 0 although compare returned -1 on a host_c that differs
\* from host_a + host_b.
C16_Witness ==
    /\ program = "gpu"
    /\ pc = "exit"
    /\ failedStep = "none"
    /\ exit_status = 0
    /\ compare_calls = 1
    /\ compare_ret = 0 - 1
    /\ Mismatches # {}

=============================================================================
